---- MODULE Spec2Model ----
(***************************************************************************)
(* Legal case tracker: the in-memory store (server/storage.ts, MemStorage), *)
(* the HTTP routes over it (server/routes.ts, api/index.ts) and the         *)
(* relational variants of the queries (server/db-storage.ts).  The hearing  *)
(* routes are also modelled step by step, one awaited storage call at a     *)
(* time, with two requests in flight.                                       *)
(*                                                                          *)
(* Time is the millisecond clock of Date.now(); a calendar date string      *)
(* 'YYYY-MM-DD' is modelled by its day number, and new Date(string) and     *)
(* toISOString().slice(0, 10) by the conversions between the two.           *)
(***************************************************************************)
EXTENDS Integers, Sequences, FiniteSets, TLC

VARIABLES
  cases, clients, hearings, activities,  \* MemStorage's maps, id -> row
  nextId,                                \* MemStorage.nextId
  now,                                   \* Date.now(), in ms
  resp,                                  \* the last HTTP response
  issued,                                \* history: every id handed out so far
  writes,                                \* history: mutating requests served
  dated,                                 \* history: hearing ids, in the order
                                         \* their dates were written by requests
  reqs,                                  \* requests in flight, step by step
  wrote,                                 \* history: the writes, in their order
  sessions,                              \* api/index.ts sessions, id -> session
  users,                                 \* MemStorage.users, id -> row
  revoked,                               \* history: session ids logged out
  lapsed,                                \* history: session ids found expired
  asked                                  \* history: session id of the last request

store == <<cases, clients, hearings, activities, nextId>>
http == <<resp, writes, dated>>
race == <<reqs, wrote>>
auth == <<sessions, users, revoked, lapsed, asked>>
vars == <<cases, clients, hearings, activities, nextId, now, resp, issued, writes,
          dated, reqs, wrote, sessions, users, revoked, lapsed, asked>>

\* ------------------------------------------------------------------ bounds
\* Rows the shared id counter may hand out in the storage specification.
MaxId == 2
\* Clock ticks (of half a day each) the model lets pass.
MaxTicks == 1
\* Mutating HTTP requests served in the routes specification.
MaxWrites == 1

\* ------------------------------------------------------------- primitives
Users == {"A", "B"}
\* Requests that may be in flight together, and a slot no request has taken.
Slots == {"r1", "r2"}
Idle ==
  [pc |-> "idle", method |-> "none", userId |-> "none", id |-> 0, data |-> <<>>,
   existing |-> <<>>, status |-> 0, at |-> "none"]

MsPerDay == 24 * 60 * 60 * 1000
WeekMs == 7 * 24 * 60 * 60 * 1000
TickMs == 12 * 60 * 60 * 1000

Null == <<>>
Some(v) == <<v>>

\* new Date('YYYY-MM-DD'): midnight UTC of that day, in ms.
ParseDate(d) == d * MsPerDay
\* date.toISOString().slice(0, 10): the calendar day of a ms timestamp.
ToDateStr(t) == t \div MsPerDay

\* { ...existing, ...data }: the fields of data override those of existing.
Spread(existing, data) ==
  [f \in DOMAIN existing \cup DOMAIN data |->
     IF f \in DOMAIN data THEN data[f] ELSE existing[f]]

\* Array.from(map.values()).sort(cmp) for a comparator on an integer key:
\* ascending key, insertion (= id) order among equal keys (the sort is stable).
RECURSIVE SortIds(_, _)
SortIds(S, key) ==
  IF S = {} THEN <<>>
  ELSE LET m == CHOOSE x \in S :
                  \A y \in S : key[x] < key[y] \/ (key[x] = key[y] /\ x <= y)
       IN <<m>> \o SortIds(S \ {m}, key)

Rows(m, order) == [i \in 1..Len(order) |-> m[order[i]]]

Take(s, n) == IF Len(s) <= n THEN s ELSE SubSeq(s, 1, n)

Range(s) == {s[i] : i \in DOMAIN s}

\* ------------------------------------------------------------------ inputs
ActivityLimit == 10

Ids == 1..MaxId

\* InsertCase after insertCaseSchema.parse: no id, userId, createdAt, updatedAt.
CaseInputs ==
  [caseNumber : {<<"n", "1">>}, title : {<<"S", "m">>}, status : {"Active"},
   nextHearingDate : {Null}, clientId : {Null}]

ClientInputs ==
  [name : {<<"a">>}, email : {Some(<<"a", "@">>)}, contactNumber : {Some(<<"5", "X">>)}]

HearingInputs == [caseId : {1}, hearingDate : {0}, status : {Null}]

ActivityInputs ==
  [action : {"Created Case"}, entityType : {"case"}, entityId : {1}]

\* Partial<InsertCase>, Partial<InsertClient>, Partial<InsertHearing>: a subset
\* of the insertable fields; <<>> is the empty object.
CasePartials == {[status |-> "Closed"], <<>>}

ClientPartials == {[name |-> <<"b">>], <<>>}

HearingPartials == {[hearingDate |-> 3], <<>>}

\* ------------------------------------------------------------- MemStorage
Init ==
  /\ cases = <<>>
  /\ clients = <<>>
  /\ hearings = <<>>
  /\ activities = <<>>
  /\ nextId = 1
  /\ now = 0
  /\ resp = [user |-> "none", status |-> 0, body |-> <<>>]
  /\ issued = {}
  /\ writes = 0
  /\ dated = <<>>
  /\ reqs = [slot \in Slots |-> Idle]
  /\ wrote = <<>>
  /\ sessions = <<>>
  /\ users = <<>>
  /\ revoked = {}
  /\ lapsed = {}
  /\ asked = <<>>

\* Map.set(id, row)
MapSet(m, id, row) == [i \in DOMAIN m \cup {id} |-> IF i = id THEN row ELSE m[i]]
\* Map.delete(id)
MapDelete(m, id) == [i \in DOMAIN m \ {id} |-> m[i]]
\* Map.get(id): Null stands for undefined
MapGet(m, id) == IF id \in DOMAIN m THEN Some(m[id]) ELSE Null

OwnedIds(m, userId) == {i \in DOMAIN m : m[i].userId = userId}

\* Faulty variant: the owner filter left out.
getCasesIds_AnyOwner(userId) ==
  SortIds(DOMAIN cases, [i \in DOMAIN cases |-> 0 - cases[i].updatedAt])
getCasesIds(userId) ==
  SortIds(OwnedIds(cases, userId), [i \in DOMAIN cases |-> 0 - cases[i].updatedAt])
getCases(userId) == Rows(cases, getCasesIds(userId))

getCase(id) == MapGet(cases, id)

getClientsIds(userId) ==
  SortIds(OwnedIds(clients, userId), [i \in DOMAIN clients |-> 0 - clients[i].updatedAt])
getClients(userId) == Rows(clients, getClientsIds(userId))

getClient(id) == MapGet(clients, id)

getHearingsIds(userId) ==
  SortIds(OwnedIds(hearings, userId),
          [i \in DOMAIN hearings |-> ParseDate(hearings[i].hearingDate)])
getHearings(userId) == Rows(hearings, getHearingsIds(userId))

getHearing(id) == MapGet(hearings, id)

getActivities(userId, limit) ==
  Take(Rows(activities,
            SortIds(OwnedIds(activities, userId),
                    [i \in DOMAIN activities |-> 0 - activities[i].createdAt])),
       limit)

newCase(id, data, userId) ==
  Spread(Spread([id |-> id], Spread(data, [userId |-> userId])),
         [createdAt |-> now, updatedAt |-> now])

newClient(id, data, userId) ==
  Spread(Spread([id |-> id], Spread(data, [userId |-> userId])),
         [createdAt |-> now, updatedAt |-> now])

newHearing(id, data, userId) ==
  Spread(Spread([id |-> id], Spread(data, [userId |-> userId])),
         [status |-> data.status, userId |-> userId,
          createdAt |-> now, updatedAt |-> now])

\* DatabaseStorage.createHearing: the row the hearings table returns for the
\* same insert; a status left out takes the column default "Scheduled".
dbNewHearing(id, data, userId) ==
  Spread(Spread([id |-> id], Spread(data, [userId |-> userId])),
         [status |-> IF data.status = Null THEN Some("Scheduled") ELSE data.status,
          createdAt |-> now, updatedAt |-> now])

newActivity(id, data, userId) ==
  Spread(Spread([id |-> id], Spread(data, [userId |-> userId])),
         [userId |-> userId, createdAt |-> now])

\* Faulty variant: the row replaced wholesale by the patch.
updatedRow_Replace(existing, data) ==
  Spread(Spread([id |-> existing.id], data), [updatedAt |-> now])
updatedRow(existing, data) == Spread(Spread(existing, data), [updatedAt |-> now])

\* The maps after each MemStorage mutation, and what the call returns.
\* Faulty variant: the id taken from the map's size instead of the counter.
createCase_SizeId(data, userId) ==
  LET id == Cardinality(DOMAIN cases) + 1
  IN MapSet(cases, id, newCase(id, data, userId))
createCase(data, userId) == MapSet(cases, nextId, newCase(nextId, data, userId))
createClient(data, userId) == MapSet(clients, nextId, newClient(nextId, data, userId))
createHearing(data, userId) == MapSet(hearings, nextId, newHearing(nextId, data, userId))
\* Faulty variant: the log keeps the newest activity only.
createActivityAt_KeepsLast(id, data, userId) ==
  MapSet(<<>>, id, newActivity(id, data, userId))
createActivityAt(id, data, userId) ==
  MapSet(activities, id, newActivity(id, data, userId))
createActivity(data, userId) == createActivityAt(nextId, data, userId)

\* Faulty variant: an update of a missing id inserts the patch.
updateCase_Upsert(id, data) == MapSet(cases, id, Spread(data, [updatedAt |-> now]))
updateCase(id, data) ==
  IF id \notin DOMAIN cases THEN cases
  ELSE MapSet(cases, id, updatedRow(cases[id], data))
updateClient(id, data) ==
  IF id \notin DOMAIN clients THEN clients
  ELSE MapSet(clients, id, updatedRow(clients[id], data))
updateHearing(id, data) ==
  IF id \notin DOMAIN hearings THEN hearings
  ELSE MapSet(hearings, id, updatedRow(hearings[id], data))

deleteCase(id) == MapDelete(cases, id)
deleteClient(id) == MapDelete(clients, id)
deleteHearing(id) == MapDelete(hearings, id)

\* ------------------------------------------------------------------ search
\* Strings are sequences of characters.
LowerChar(c) == CASE c = "S" -> "s" [] c = "M" -> "m" [] c = "X" -> "x" [] OTHER -> c
toLowerCase(s) == [i \in DOMAIN s |-> LowerChar(s[i])]

\* String.prototype.includes
includes(s, q) ==
  \E k \in 0..(Len(s) - Len(q)) : \A i \in 1..Len(q) : s[k + i] = q[i]

\* SQL  s LIKE '%' || q || '%'  (case-sensitive; '_' in q stands for any one
\* character).  The alphabet of the model has no '%' and no escape character.
like(s, q) ==
  \E k \in 0..(Len(s) - Len(q)) : \A i \in 1..Len(q) : q[i] = "_" \/ s[k + i] = q[i]
\* SQL  s ILIKE '%' || q || '%'
ilike(s, q) == like(toLowerCase(s), toLowerCase(q))

\* optional?.method(...): undefined (falsy) when the field is null
OptIncludes(opt, q) == opt # Null /\ includes(opt[1], q)
OptLowerIncludes(opt, q) == opt # Null /\ includes(toLowerCase(opt[1]), q)
OptLike(opt, q) == opt # Null /\ like(opt[1], q)

\* MemStorage.searchCases / searchClients: the ids of the rows returned.
searchCases(userId, query) ==
  LET lowerQuery == toLowerCase(query)
  IN {i \in DOMAIN cases :
        /\ cases[i].userId = userId
        /\ \/ includes(toLowerCase(cases[i].caseNumber), lowerQuery)
           \/ includes(toLowerCase(cases[i].title), lowerQuery)}

searchClients(userId, query) ==
  LET lowerQuery == toLowerCase(query)
  IN {i \in DOMAIN clients :
        /\ clients[i].userId = userId
        /\ \/ includes(toLowerCase(clients[i].name), lowerQuery)
           \/ OptLowerIncludes(clients[i].email, lowerQuery)
           \/ OptIncludes(clients[i].contactNumber, query)}

\* DatabaseStorage.searchCases / searchClients of server/db-storage.ts, run on
\* the same rows.
dbSearchCases(userId, query) ==
  {i \in DOMAIN cases :
     /\ cases[i].userId = userId
     /\ (like(cases[i].caseNumber, query) \/ like(cases[i].title, query))}

dbSearchClients(userId, query) ==
  {i \in DOMAIN clients :
     /\ clients[i].userId = userId
     /\ \/ like(clients[i].name, query)
        \/ OptLike(clients[i].email, query)
        \/ OptLike(clients[i].contactNumber, query)}

\* --------------------------------------------------------------- dashboard
\* MemStorage.getDashboardStats
\* Faulty variant: totalCases and totalClients are the sizes of the maps.
getDashboardStats_MapSizes(userId) ==
  LET userCases == OwnedIds(cases, userId)
  IN [totalCases |-> Cardinality(DOMAIN cases),
      activeCases |-> Cardinality({i \in userCases :
                         cases[i].status = "Active" \/ cases[i].status = "Scheduled"}),
      totalClients |-> Cardinality(DOMAIN clients),
      hearingsThisWeek |-> 0]
getDashboardStats(userId) ==
  LET userCases == OwnedIds(cases, userId)
      userClients == OwnedIds(clients, userId)
      userHearings == OwnedIds(hearings, userId)
      today == now
      weekFromNow == today + WeekMs
      thisWeek == {i \in userHearings :
                     LET hearingDate == ParseDate(hearings[i].hearingDate)
                     IN hearingDate >= today /\ hearingDate <= weekFromNow}
  IN [totalCases |-> Cardinality(userCases),
      activeCases |-> Cardinality({i \in userCases :
                         cases[i].status = "Active" \/ cases[i].status = "Scheduled"}),
      totalClients |-> Cardinality(userClients),
      hearingsThisWeek |-> Cardinality(thisWeek)]

\* DatabaseStorage.getDashboardStats of server/db-storage.ts: hearingsThisWeek
dbHearingsThisWeek(userId) ==
  LET today == now
      weekFromNow == today + WeekMs
      todayStr == ToDateStr(today)
      weekFromNowStr == ToDateStr(weekFromNow)
  IN Cardinality({i \in OwnedIds(hearings, userId) :
                    /\ hearings[i].hearingDate >= todayStr
                    /\ hearings[i].hearingDate <= weekFromNowStr})

\* MemStorage.getCasesByStatuses.  statusCounts is the Map<string, number>
\* as the sequence of its entries in insertion order.
StatusCountGet(statusCounts, status) ==
  IF \E k \in DOMAIN statusCounts : statusCounts[k].status = status
    THEN (CHOOSE e \in Range(statusCounts) : e.status = status).count
    ELSE 0
StatusCountSet(statusCounts, status, count) ==
  IF \E k \in DOMAIN statusCounts : statusCounts[k].status = status
    THEN [k \in DOMAIN statusCounts |->
            IF statusCounts[k].status = status
              THEN [status |-> status, count |-> count]
              ELSE statusCounts[k]]
    ELSE Append(statusCounts, [status |-> status, count |-> count])

\* Faulty variant: the entry is set to 1 instead of being incremented.
tallyStatus_NoIncrement(statusCounts, status) == StatusCountSet(statusCounts, status, 1)
tallyStatus(statusCounts, status) ==
  StatusCountSet(statusCounts, status, StatusCountGet(statusCounts, status) + 1)

RECURSIVE forEachTally(_, _)
forEachTally(ids, statusCounts) ==
  IF ids = <<>> THEN statusCounts
  ELSE forEachTally(Tail(ids), tallyStatus(statusCounts, cases[Head(ids)].status))

getCasesByStatuses(userId) ==
  forEachTally(SortIds(OwnedIds(cases, userId), [i \in DOMAIN cases |-> 0]), <<>>)

\* What update and delete hand back, by kind: a row or undefined, true or false.
rowOrUndefined(m, id) == IF id \in DOMAIN m THEN "row" ELSE "undefined"
\* Faulty variant: delete reports success whatever it found.
deleteResult_AlwaysTrue(m, id) == "true"
deleteResult(m, id) == IF id \in DOMAIN m THEN "true" ELSE "false"

\* ------------------------------------------------ storage calls as actions
\* The store as one value, and the store each mutating call leaves behind:
\* a method assigns to its own map (and the counter) and to nothing else.
Store ==
  [cases |-> cases, clients |-> clients, hearings |-> hearings,
   activities |-> activities, nextId |-> nextId]

afterCreateCase(data, userId) ==
  [Store EXCEPT !.cases = createCase(data, userId), !.nextId = nextId + 1]
afterCreateClient(data, userId) ==
  [Store EXCEPT !.clients = createClient(data, userId), !.nextId = nextId + 1]
afterCreateHearing(data, userId) ==
  [Store EXCEPT !.hearings = createHearing(data, userId), !.nextId = nextId + 1]
afterCreateActivity(data, userId) ==
  [Store EXCEPT !.activities = createActivity(data, userId), !.nextId = nextId + 1]
afterUpdateCase(id, data) == [Store EXCEPT !.cases = updateCase(id, data)]
afterUpdateClient(id, data) == [Store EXCEPT !.clients = updateClient(id, data)]
afterUpdateHearing(id, data) == [Store EXCEPT !.hearings = updateHearing(id, data)]
afterDeleteCase(id) == [Store EXCEPT !.cases = deleteCase(id)]
afterDeleteClient(id) == [Store EXCEPT !.clients = deleteClient(id)]
afterDeleteHearing(id) == [Store EXCEPT !.hearings = deleteHearing(id)]

Becomes(s) ==
  /\ cases' = s.cases
  /\ clients' = s.clients
  /\ hearings' = s.hearings
  /\ activities' = s.activities
  /\ nextId' = s.nextId

Tick ==
  /\ now < MaxTicks * TickMs
  /\ now' = now + TickMs
  /\ UNCHANGED <<store, issued, http, race, auth>>

CreateCaseOp(data, userId) ==
  /\ nextId <= MaxId
  /\ Becomes(afterCreateCase(data, userId))
  /\ issued' = issued \cup {nextId}
  /\ UNCHANGED <<now, http, race, auth>>

CreateClientOp(data, userId) ==
  /\ nextId <= MaxId
  /\ Becomes(afterCreateClient(data, userId))
  /\ issued' = issued \cup {nextId}
  /\ UNCHANGED <<now, http, race, auth>>

CreateHearingOp(data, userId) ==
  /\ nextId <= MaxId
  /\ Becomes(afterCreateHearing(data, userId))
  /\ issued' = issued \cup {nextId}
  /\ UNCHANGED <<now, http, race, auth>>

CreateActivityOp(data, userId) ==
  /\ nextId <= MaxId
  /\ Becomes(afterCreateActivity(data, userId))
  /\ issued' = issued \cup {nextId}
  /\ UNCHANGED <<now, http, race, auth>>

UpdateCaseOp(id, data) ==
  /\ Becomes(afterUpdateCase(id, data))
  /\ UNCHANGED <<now, issued, http, race, auth>>

UpdateClientOp(id, data) ==
  /\ Becomes(afterUpdateClient(id, data))
  /\ UNCHANGED <<now, issued, http, race, auth>>

UpdateHearingOp(id, data) ==
  /\ Becomes(afterUpdateHearing(id, data))
  /\ UNCHANGED <<now, issued, http, race, auth>>

DeleteCaseOp(id) ==
  /\ Becomes(afterDeleteCase(id))
  /\ UNCHANGED <<now, issued, http, race, auth>>

DeleteClientOp(id) ==
  /\ Becomes(afterDeleteClient(id))
  /\ UNCHANGED <<now, issued, http, race, auth>>

DeleteHearingOp(id) ==
  /\ Becomes(afterDeleteHearing(id))
  /\ UNCHANGED <<now, issued, http, race, auth>>

CreateCase == \E data \in CaseInputs, userId \in Users : CreateCaseOp(data, userId)
CreateClient == \E data \in ClientInputs, userId \in Users : CreateClientOp(data, userId)
CreateHearing == \E data \in HearingInputs, userId \in Users : CreateHearingOp(data, userId)
CreateActivity ==
  \E data \in ActivityInputs, userId \in Users : CreateActivityOp(data, userId)
UpdateCase == \E id \in Ids, data \in CasePartials : UpdateCaseOp(id, data)
UpdateClient == \E id \in Ids, data \in ClientPartials : UpdateClientOp(id, data)
UpdateHearing == \E id \in Ids, data \in HearingPartials : UpdateHearingOp(id, data)
DeleteCase == \E id \in Ids : DeleteCaseOp(id)
DeleteClient == \E id \in Ids : DeleteClientOp(id)
DeleteHearing == \E id \in Ids : DeleteHearingOp(id)

\* The reads (get, the lists, the searches, the dashboard) change nothing and
\* are operators on the state.
Next ==
  \/ Tick
  \/ CreateCase \/ CreateClient \/ CreateHearing \/ CreateActivity
  \/ UpdateCase \/ UpdateClient \/ UpdateHearing
  \/ DeleteCase \/ DeleteClient \/ DeleteHearing

Spec == Init /\ [][Next]_vars

\* -------------------------------------------------------------- HTTP routes
\* registerRoutes over MemStorage.  Every request is authenticated as a user
\* of Users (isAuthenticated has passed); a handler awaits only storage calls
\* that resolve at once, so it runs to its response without interleaving.

ByUpdatedDesc(m) == [i \in DOMAIN m |-> 0 - m[i].updatedAt]
ByHearingDate == [i \in DOMAIN hearings |-> ParseDate(hearings[i].hearingDate)]

filterCasesByStatus(userId, status) ==
  Rows(cases, SortIds({i \in OwnedIds(cases, userId) : cases[i].status = status},
                      ByUpdatedDesc(cases)))
getCasesByClient(clientId) ==
  Rows(cases, SortIds({i \in DOMAIN cases : cases[i].clientId = Some(clientId)},
                      ByUpdatedDesc(cases)))
getHearingsByCase(caseId) ==
  Rows(hearings, SortIds({i \in DOMAIN hearings : hearings[i].caseId = caseId},
                         ByHearingDate))

\* The ids of MemStorage.searchCases, searchClients and filterCasesByStatus in
\* the order of their results: filter, then sort by updatedAt descending.
searchCasesIds(userId, query) == SortIds(searchCases(userId, query), ByUpdatedDesc(cases))
searchClientsIds(userId, query) ==
  SortIds(searchClients(userId, query), ByUpdatedDesc(clients))
\* Faulty variant: the filtered rows are left in insertion order.
filterCasesIds_Unsorted(userId, status) ==
  SortIds({i \in OwnedIds(cases, userId) : cases[i].status = status},
          [i \in DOMAIN cases |-> 0])
filterCasesIds(userId, status) ==
  SortIds({i \in OwnedIds(cases, userId) : cases[i].status = status},
          ByUpdatedDesc(cases))

\* Request inputs.  Ids in a path or a body are those of the rows that exist
\* and one id that names no row.
CaseReqIds == DOMAIN cases \cup {nextId}
ClientReqIds == DOMAIN clients \cup {nextId}
HearingReqIds == DOMAIN hearings \cup {nextId}
SearchTerms == {Null, Some(<<"s", "m">>)}
StatusFilters == {Null, Some("Active")}
LimitParams == {Null, Some(1)}
CaseBodies ==
  [caseNumber : {<<"n", "1">>}, title : {<<"S", "m">>}, status : {"Active", "Urgent"},
   nextHearingDate : {Null}, clientId : {Null} \cup {Some(c) : c \in DOMAIN clients}]
ClientBodies == ClientInputs
HearingBodies == [caseId : CaseReqIds, hearingDate : {3}, status : {Null}]
CasePatches == {[status |-> "Closed"]}
ClientPatches == {[name |-> <<"b">>]}
HearingPatches ==
  {[caseId |-> c] : c \in DOMAIN cases} \cup {[hearingDate |-> 5]}
    \cup {[caseId |-> c, hearingDate |-> 5] : c \in DOMAIN cases}

Respond(userId, status, body) ==
  resp' = [user |-> userId, status |-> status, body |-> body]

\* A response that leaves the store as it was: a read, or an early return.
Reply(userId, status, body) ==
  /\ Respond(userId, status, body)
  /\ UNCHANGED <<store, issued, writes, dated>>

\* Faulty variant: the activity names itself instead of the row written.
logActivity_OwnId(id, action, entityType, entityId, userId) ==
  createActivityAt(id, [action |-> action, entityType |-> entityType,
                        entityId |-> id], userId)
\* storage.createActivity at the end of a mutating handler, with the id the
\* counter has reached by then.
logActivity(id, action, entityType, entityId, userId) ==
  createActivityAt(id, [action |-> action, entityType |-> entityType,
                        entityId |-> entityId], userId)

\* The patch POST /api/hearings applies to the hearing's case.
\* Faulty variant: the patch sets the date and leaves the status alone.
scheduledPatch_DateOnly(data) ==
  [nextHearingDate |-> Some(ParseDate(data.hearingDate))]
scheduledPatch(data) ==
  [nextHearingDate |-> Some(ParseDate(data.hearingDate)), status |-> "Scheduled"]
\* The patch PUT /api/hearings/:id applies to the case of the hearing as read
\* before the update.
rescheduledPatch(data) == [nextHearingDate |-> Some(ParseDate(data.hearingDate))]

GetCasesReq(userId, search, status) ==
  /\ Reply(userId, 200,
           IF search # Null
             THEN Rows(cases, SortIds(searchCases(userId, search[1]), ByUpdatedDesc(cases)))
           ELSE IF status # Null THEN filterCasesByStatus(userId, status[1])
           ELSE getCases(userId))
  /\ UNCHANGED <<now, race, auth>>

GetCaseReq(userId, id) ==
  /\ IF id \notin DOMAIN cases THEN Reply(userId, 404, <<>>)
     ELSE IF cases[id].userId # userId THEN Reply(userId, 403, <<>>)
     ELSE Reply(userId, 200, <<cases[id]>>)
  /\ UNCHANGED <<now, race, auth>>

PostCaseReq(userId, data) ==
  /\ writes < MaxWrites
  /\ cases' = createCase(data, userId)
  /\ activities' = logActivity(nextId + 1, "Created Case", "case", nextId, userId)
  /\ nextId' = nextId + 2
  /\ issued' = issued \cup {nextId, nextId + 1}
  /\ writes' = writes + 1
  /\ Respond(userId, 201, <<cases'[nextId]>>)
  /\ UNCHANGED <<clients, hearings, dated>>
  /\ UNCHANGED <<now, race, auth>>

PutCaseReq(userId, id, data) ==
  /\ IF id \notin DOMAIN cases THEN Reply(userId, 404, <<>>)
     ELSE IF cases[id].userId # userId THEN Reply(userId, 403, <<>>)
     ELSE /\ writes < MaxWrites
          /\ cases' = updateCase(id, data)
          /\ activities' = logActivity(nextId, "Updated Case", "case", id, userId)
          /\ nextId' = nextId + 1
          /\ issued' = issued \cup {nextId}
          /\ writes' = writes + 1
          /\ Respond(userId, 200, <<cases'[id]>>)
          /\ UNCHANGED <<clients, hearings, dated>>
  /\ UNCHANGED <<now, race, auth>>

\* Faulty variant: the owner of the case is not compared with the requester.
DeleteCaseReq_NoOwnerCheck(userId, id) ==
  /\ IF id \notin DOMAIN cases THEN Reply(userId, 404, <<>>)
     ELSE /\ writes < MaxWrites
          /\ cases' = deleteCase(id)
          /\ activities' = logActivity(nextId, "Deleted Case", "case", id, userId)
          /\ nextId' = nextId + 1
          /\ issued' = issued \cup {nextId}
          /\ writes' = writes + 1
          /\ Respond(userId, 204, <<>>)
          /\ UNCHANGED <<clients, hearings, dated>>
  /\ UNCHANGED <<now, race, auth>>
DeleteCaseReq(userId, id) ==
  /\ IF id \notin DOMAIN cases THEN Reply(userId, 404, <<>>)
     ELSE IF cases[id].userId # userId THEN Reply(userId, 403, <<>>)
     ELSE /\ writes < MaxWrites
          /\ cases' = deleteCase(id)
          /\ activities' = logActivity(nextId, "Deleted Case", "case", id, userId)
          /\ nextId' = nextId + 1
          /\ issued' = issued \cup {nextId}
          /\ writes' = writes + 1
          /\ Respond(userId, 204, <<>>)
          /\ UNCHANGED <<clients, hearings, dated>>
  /\ UNCHANGED <<now, race, auth>>

GetClientsReq(userId, search) ==
  /\ Reply(userId, 200,
           IF search # Null
             THEN Rows(clients, SortIds(searchClients(userId, search[1]),
                                        ByUpdatedDesc(clients)))
           ELSE getClients(userId))
  /\ UNCHANGED <<now, race, auth>>

GetClientReq(userId, id) ==
  /\ IF id \notin DOMAIN clients THEN Reply(userId, 404, <<>>)
     ELSE IF clients[id].userId # userId THEN Reply(userId, 403, <<>>)
     ELSE Reply(userId, 200, <<clients[id]>> \o getCasesByClient(id))
  /\ UNCHANGED <<now, race, auth>>

PostClientReq(userId, data) ==
  /\ writes < MaxWrites
  /\ clients' = createClient(data, userId)
  /\ activities' = logActivity(nextId + 1, "Added Client", "client", nextId, userId)
  /\ nextId' = nextId + 2
  /\ issued' = issued \cup {nextId, nextId + 1}
  /\ writes' = writes + 1
  /\ Respond(userId, 201, <<clients'[nextId]>>)
  /\ UNCHANGED <<cases, hearings, dated>>
  /\ UNCHANGED <<now, race, auth>>

PutClientReq(userId, id, data) ==
  /\ IF id \notin DOMAIN clients THEN Reply(userId, 404, <<>>)
     ELSE IF clients[id].userId # userId THEN Reply(userId, 403, <<>>)
     ELSE /\ writes < MaxWrites
          /\ clients' = updateClient(id, data)
          /\ activities' = logActivity(nextId, "Updated Client", "client", id, userId)
          /\ nextId' = nextId + 1
          /\ issued' = issued \cup {nextId}
          /\ writes' = writes + 1
          /\ Respond(userId, 200, <<clients'[id]>>)
          /\ UNCHANGED <<cases, hearings, dated>>
  /\ UNCHANGED <<now, race, auth>>

DeleteClientReq(userId, id) ==
  /\ IF id \notin DOMAIN clients THEN Reply(userId, 404, <<>>)
     ELSE IF clients[id].userId # userId
       THEN Reply(userId, 403, <<>>)
     ELSE /\ writes < MaxWrites
          /\ clients' = deleteClient(id)
          /\ activities' = logActivity(nextId, "Deleted Client", "client", id, userId)
          /\ nextId' = nextId + 1
          /\ issued' = issued \cup {nextId}
          /\ writes' = writes + 1
          /\ Respond(userId, 204, <<>>)
          /\ UNCHANGED <<cases, hearings, dated>>
  /\ UNCHANGED <<now, race, auth>>

GetHearingsReq(userId, caseId) ==
  /\ Reply(userId, 200,
           IF caseId # Null THEN getHearingsByCase(caseId[1]) ELSE getHearings(userId))
  /\ UNCHANGED <<now, race, auth>>

GetHearingReq(userId, id) ==
  /\ IF id \notin DOMAIN hearings THEN Reply(userId, 404, <<>>)
     ELSE IF hearings[id].userId # userId
       THEN Reply(userId, 403, <<>>)
     ELSE Reply(userId, 200, <<hearings[id]>>)
  /\ UNCHANGED <<now, race, auth>>

PostHearingReq(userId, data) ==
  /\ IF data.caseId \notin DOMAIN cases THEN Reply(userId, 404, <<>>)
     ELSE IF cases[data.caseId].userId # userId
       THEN Reply(userId, 403, <<>>)
     ELSE /\ writes < MaxWrites
          /\ hearings' = createHearing(data, userId)
          /\ cases' = updateCase(data.caseId, scheduledPatch(data))
          /\ activities' =
               logActivity(nextId + 1, "Scheduled Hearing", "hearing", nextId, userId)
          /\ nextId' = nextId + 2
          /\ issued' = issued \cup {nextId, nextId + 1}
          /\ writes' = writes + 1
          /\ Respond(userId, 201, <<hearings'[nextId]>>)
          /\ dated' = Append(dated, nextId)
          /\ UNCHANGED clients
  /\ UNCHANGED <<now, race, auth>>

PutHearingReq(userId, id, data) ==
  /\ IF id \notin DOMAIN hearings THEN Reply(userId, 404, <<>>)
     ELSE IF hearings[id].userId # userId
       THEN Reply(userId, 403, <<>>)
     ELSE /\ writes < MaxWrites
          /\ hearings' = updateHearing(id, data)
          /\ cases' = IF "hearingDate" \in DOMAIN data
                        THEN updateCase(hearings[id].caseId, rescheduledPatch(data))
                        ELSE cases
          /\ activities' = logActivity(nextId, "Updated Hearing", "hearing", id, userId)
          /\ nextId' = nextId + 1
          /\ issued' = issued \cup {nextId}
          /\ writes' = writes + 1
          /\ Respond(userId, 200, <<hearings'[id]>>)
          /\ dated' = IF "hearingDate" \in DOMAIN data THEN Append(dated, id) ELSE dated
          /\ UNCHANGED clients
  /\ UNCHANGED <<now, race, auth>>

DeleteHearingReq(userId, id) ==
  /\ IF id \notin DOMAIN hearings THEN Reply(userId, 404, <<>>)
     ELSE IF hearings[id].userId # userId
       THEN Reply(userId, 403, <<>>)
     ELSE /\ writes < MaxWrites
          /\ hearings' = deleteHearing(id)
          /\ activities' = logActivity(nextId, "Deleted Hearing", "hearing", id, userId)
          /\ nextId' = nextId + 1
          /\ issued' = issued \cup {nextId}
          /\ writes' = writes + 1
          /\ Respond(userId, 204, <<>>)
          /\ UNCHANGED <<cases, clients, dated>>
  /\ UNCHANGED <<now, race, auth>>

GetActivitiesReq(userId, limit) ==
  /\ Reply(userId, 200,
           getActivities(userId, IF limit # Null THEN limit[1] ELSE ActivityLimit))
  /\ UNCHANGED <<now, race, auth>>

\* A request without a valid session is answered 401 before any storage
\* call, and one with a method the path does not serve 405 after the guard.
UnauthorizedReq ==
  /\ Reply("none", 401, <<>>)
  /\ UNCHANGED <<now, race, auth>>
NotAllowedReq(userId) ==
  /\ Reply(userId, 405, <<>>)
  /\ UNCHANGED <<now, race, auth>>

GetCases ==
  \E userId \in Users, search \in SearchTerms, status \in StatusFilters :
    GetCasesReq(userId, search, status)
GetCaseById == \E userId \in Users, id \in CaseReqIds : GetCaseReq(userId, id)
PostCase ==
  \E userId \in Users, data \in CaseBodies :
    PostCaseReq(userId, data)
PutCase ==
  \E userId \in Users, id \in CaseReqIds, data \in CasePatches :
    PutCaseReq(userId, id, data)
DeleteCaseById == \E userId \in Users, id \in CaseReqIds : DeleteCaseReq(userId, id)
GetClients == \E userId \in Users, search \in SearchTerms : GetClientsReq(userId, search)
GetClientById == \E userId \in Users, id \in ClientReqIds : GetClientReq(userId, id)
PostClient ==
  \E userId \in Users, data \in ClientBodies :
    PostClientReq(userId, data)
PutClient ==
  \E userId \in Users, id \in ClientReqIds, data \in ClientPatches :
    PutClientReq(userId, id, data)
DeleteClientById == \E userId \in Users, id \in ClientReqIds : DeleteClientReq(userId, id)
GetHearings ==
  \E userId \in Users, caseId \in {Null} \cup {Some(c) : c \in CaseReqIds} :
    GetHearingsReq(userId, caseId)
GetHearingById == \E userId \in Users, id \in HearingReqIds : GetHearingReq(userId, id)
PostHearing ==
  \E userId \in Users, data \in HearingBodies :
    PostHearingReq(userId, data)
PutHearing ==
  \E userId \in Users, id \in HearingReqIds, data \in HearingPatches :
    PutHearingReq(userId, id, data)
DeleteHearingById == \E userId \in Users, id \in HearingReqIds : DeleteHearingReq(userId, id)
GetActivitiesList ==
  \E userId \in Users, limit \in LimitParams : GetActivitiesReq(userId, limit)
Unauthorized == UnauthorizedReq
NotAllowed == \E userId \in Users : NotAllowedReq(userId)

NextHttp ==
  \/ Tick
  \/ GetCases \/ GetCaseById \/ PostCase \/ PutCase \/ DeleteCaseById
  \/ GetClients \/ GetClientById \/ PostClient \/ PutClient \/ DeleteClientById
  \/ GetHearings \/ GetHearingById \/ PostHearing \/ PutHearing \/ DeleteHearingById
  \/ GetActivitiesList
  \/ Unauthorized \/ NotAllowed

\* The server after four requests at time 0: POST /api/cases by B (case 1,
\* activity 2), POST /api/cases by A (case 3, activity 4), POST /api/hearings
\* by A for case 3 (hearing 5, activity 6) and PUT /api/hearings/5 by A with
\* body {caseId: 1} (activity 7).
SeededCases ==
  (1 :> [id |-> 1, caseNumber |-> <<"n", "1">>, title |-> <<"S", "m">>,
         status |-> "Urgent", nextHearingDate |-> Null, clientId |-> Null,
         userId |-> "B", createdAt |-> 0, updatedAt |-> 0])
  @@ (3 :> [id |-> 3, caseNumber |-> <<"n", "1">>, title |-> <<"S", "m">>,
            status |-> "Scheduled", nextHearingDate |-> Some(ParseDate(3)),
            clientId |-> Null, userId |-> "A", createdAt |-> 0, updatedAt |-> 0])
SeededHearings ==
  (5 :> [id |-> 5, caseId |-> 1, hearingDate |-> 3, status |-> Null,
         userId |-> "A", createdAt |-> 0, updatedAt |-> 0])
SeededActivities ==
  (2 :> [id |-> 2, action |-> "Created Case", entityType |-> "case", entityId |-> 1,
         userId |-> "B", createdAt |-> 0])
  @@ (4 :> [id |-> 4, action |-> "Created Case", entityType |-> "case", entityId |-> 3,
            userId |-> "A", createdAt |-> 0])
  @@ (6 :> [id |-> 6, action |-> "Scheduled Hearing", entityType |-> "hearing",
            entityId |-> 5, userId |-> "A", createdAt |-> 0])
  @@ (7 :> [id |-> 7, action |-> "Updated Hearing", entityType |-> "hearing",
            entityId |-> 5, userId |-> "A", createdAt |-> 0])
Seeded ==
  /\ cases = SeededCases
  /\ clients = <<>>
  /\ hearings = SeededHearings
  /\ activities = SeededActivities
  /\ nextId = 8
  /\ now = 0
  /\ resp = [user |-> "A", status |-> 200, body |-> <<SeededHearings[5]>>]
  /\ issued = 1..7
  /\ writes = 0
  /\ dated = <<5>>
  /\ reqs = [slot \in Slots |-> Idle]
  /\ wrote = <<>>
  /\ sessions = <<>>
  /\ users = <<>>
  /\ revoked = {}
  /\ lapsed = {}
  /\ asked = <<>>

\* The routes are explored from the empty server and from the seeded one.
InitHttp == Init \/ Seeded

SpecHttp == InitHttp /\ [][NextHttp]_vars


\* ======================================== hearing requests, step by step
\* POST /api/hearings, PUT and DELETE /api/hearings/:id as the sequence of
\* their awaited storage calls.  Against a database every await lets the
\* steps of another request in between; a request may also end at an await
\* whose call rejects.

RaceBodies == [caseId : {1}, hearingDate : {5, 6}, status : {Null}]
RacePatches == {[hearingDate |-> 7], [caseId |-> 1]}

\* The first await: getCase (POST) or getHearing (PUT, DELETE), and the
\* 404 / 403 returns.  `existing` keeps the row read here for the later steps.
CheckStep(slot, method, userId, id, data) ==
  LET m == IF method = "POST" THEN cases ELSE hearings
      key == IF method = "POST" THEN data.caseId ELSE id
      refused == IF key \notin DOMAIN m THEN 404
                 ELSE IF m[key].userId # userId THEN 403 ELSE 0
      req == [pc |-> IF refused = 0 THEN "write" ELSE "done",
              method |-> method, userId |-> userId,
              id |-> IF method = "POST" THEN 0 ELSE id,
              data |-> data,
              existing |-> IF key \in DOMAIN m THEN m[key] ELSE Null,
              status |-> refused, at |-> "none"]
  IN /\ reqs[slot].pc = "idle"
     /\ reqs' = [reqs EXCEPT ![slot] = req]
     /\ resp' = IF refused = 0 THEN resp
                ELSE [user |-> userId, status |-> refused, body |-> <<>>]
     /\ UNCHANGED <<auth, store, now, issued, writes, dated, wrote>>

\* Whether the request goes on to write a case after its hearing.
patchesCase(req) ==
  \/ req.method = "POST"
  \/ req.method = "PUT" /\ "hearingDate" \in DOMAIN req.data

\* Faulty variant: deleting a hearing also clears the date of its case.
WriteHearing_ClearsCase(slot) ==
  LET req == reqs[slot]
  IN /\ req.pc = "write"
     /\ hearings' = IF req.method = "POST" THEN createHearing(req.data, req.userId)
                    ELSE IF req.method = "PUT" THEN updateHearing(req.id, req.data)
                    ELSE deleteHearing(req.id)
     /\ cases' = IF req.method = "DELETE"
                   THEN updateCase(req.existing.caseId, [nextHearingDate |-> Null])
                   ELSE cases
     /\ nextId' = IF req.method = "POST" THEN nextId + 1 ELSE nextId
     /\ issued' = IF req.method = "POST" THEN issued \cup {nextId} ELSE issued
     /\ reqs' = [reqs EXCEPT ![slot].pc = IF patchesCase(req) THEN "patch" ELSE "log",
                             ![slot].id = IF req.method = "POST" THEN nextId ELSE req.id]
     /\ dated' = IF patchesCase(req) THEN Append(dated, reqs'[slot].id) ELSE dated
     /\ wrote' = Append(wrote, <<slot, "hearing">>)
     /\ UNCHANGED <<auth, clients, activities, now, resp, writes>>
\* The hearing write: createHearing, updateHearing or deleteHearing.
WriteHearing(slot) ==
  LET req == reqs[slot]
  IN /\ req.pc = "write"
     /\ hearings' = IF req.method = "POST" THEN createHearing(req.data, req.userId)
                    ELSE IF req.method = "PUT" THEN updateHearing(req.id, req.data)
                    ELSE deleteHearing(req.id)
     /\ nextId' = IF req.method = "POST" THEN nextId + 1 ELSE nextId
     /\ issued' = IF req.method = "POST" THEN issued \cup {nextId} ELSE issued
     /\ reqs' = [reqs EXCEPT ![slot].pc = IF patchesCase(req) THEN "patch" ELSE "log",
                             ![slot].id = IF req.method = "POST" THEN nextId ELSE req.id]
     /\ dated' = IF patchesCase(req) THEN Append(dated, reqs'[slot].id) ELSE dated
     /\ wrote' = Append(wrote, <<slot, "hearing">>)
     /\ UNCHANGED <<auth, cases, clients, activities, now, resp, writes>>

\* Faulty variant: the case is written only if no request has written a case
\* since the server started.
PatchCase_FirstWins(slot) ==
  LET req == reqs[slot]
  IN /\ req.pc = "patch"
     /\ cases' = IF \E k \in DOMAIN wrote : wrote[k][2] = "case" THEN cases
                 ELSE IF req.method = "POST"
                   THEN updateCase(req.data.caseId, scheduledPatch(req.data))
                   ELSE updateCase(req.existing.caseId, rescheduledPatch(req.data))
     /\ reqs' = [reqs EXCEPT ![slot].pc = "log"]
     /\ wrote' = Append(wrote, <<slot, "case">>)
     /\ UNCHANGED <<auth, clients, hearings, activities, nextId, now, resp, issued, writes, dated>>
\* The case write: updateCase on the case of the body (POST) or of the
\* hearing as read at the first await (PUT).
PatchCase(slot) ==
  LET req == reqs[slot]
  IN /\ req.pc = "patch"
     /\ cases' = IF req.method = "POST"
                   THEN updateCase(req.data.caseId, scheduledPatch(req.data))
                   ELSE updateCase(req.existing.caseId, rescheduledPatch(req.data))
     /\ reqs' = [reqs EXCEPT ![slot].pc = "log"]
     /\ wrote' = Append(wrote, <<slot, "case">>)
     /\ UNCHANGED <<auth, clients, hearings, activities, nextId, now, resp, issued, writes, dated>>

\* createActivity and the response.
LogStep(slot) ==
  LET req == reqs[slot]
      status == IF req.method = "POST" THEN 201
                ELSE IF req.method = "PUT" THEN 200 ELSE 204
      action == IF req.method = "POST" THEN "Scheduled Hearing"
                ELSE IF req.method = "PUT" THEN "Updated Hearing" ELSE "Deleted Hearing"
  IN /\ req.pc = "log"
     /\ activities' = logActivity(nextId, action, "hearing", req.id, req.userId)
     /\ nextId' = nextId + 1
     /\ issued' = issued \cup {nextId}
     /\ writes' = writes + 1
     /\ reqs' = [reqs EXCEPT ![slot].pc = "done", ![slot].status = status]
     /\ resp' = [user |-> req.userId, status |-> status,
                 body |-> IF req.method # "DELETE" /\ req.id \in DOMAIN hearings
                            THEN <<hearings[req.id]>> ELSE <<>>]
     /\ UNCHANGED <<auth, cases, clients, hearings, now, dated, wrote>>

\* Faulty variant: a request whose createActivity rejects restores the
\* hearings as they were when it read them first.
FailStep_UndoAtLog(slot) ==
  LET req == reqs[slot]
  IN /\ req.pc \in {"write", "patch", "log"}
     /\ hearings' = IF req.pc # "log" THEN hearings
                    ELSE IF req.method = "POST" THEN deleteHearing(req.id)
                    ELSE MapSet(hearings, req.id, req.existing)
     /\ reqs' = [reqs EXCEPT ![slot].pc = "failed", ![slot].status = 500,
                             ![slot].at = req.pc]
     /\ resp' = [user |-> req.userId, status |-> 500, body |-> <<>>]
     /\ UNCHANGED <<auth, cases, clients, activities, nextId, now, issued, writes, dated, wrote>>
\* Faulty variant: a request that ends after its hearing write takes the
\* hearing back.
FailStep_Rollback(slot) ==
  LET req == reqs[slot]
  IN /\ req.pc \in {"write", "patch", "log"}
     /\ hearings' = IF req.pc = "patch" /\ req.method = "POST"
                      THEN deleteHearing(req.id) ELSE hearings
     /\ reqs' = [reqs EXCEPT ![slot].pc = "failed", ![slot].status = 500,
                             ![slot].at = req.pc]
     /\ resp' = [user |-> req.userId, status |-> 500, body |-> <<>>]
     /\ UNCHANGED <<auth, cases, clients, activities, nextId, now, issued, writes, dated, wrote>>
\* The awaited call rejects, or the request stops there: the handler's catch
\* answers 500 and nothing that was written is taken back.
FailStep(slot) ==
  LET req == reqs[slot]
  IN /\ req.pc \in {"write", "patch", "log"}
     /\ reqs' = [reqs EXCEPT ![slot].pc = "failed", ![slot].status = 500,
                             ![slot].at = req.pc]
     /\ resp' = [user |-> req.userId, status |-> 500, body |-> <<>>]
     /\ UNCHANGED <<auth, store, now, issued, writes, dated, wrote>>

CheckPost ==
  \E slot \in Slots, userId \in Users, data \in RaceBodies :
    CheckStep(slot, "POST", userId, 0, data)
CheckPut ==
  \E slot \in Slots, userId \in Users, id \in HearingReqIds, data \in RacePatches :
    CheckStep(slot, "PUT", userId, id, data)
CheckDelete ==
  \E slot \in Slots, userId \in Users, id \in HearingReqIds :
    CheckStep(slot, "DELETE", userId, id, <<>>)
HearingWrite == \E slot \in Slots : WriteHearing(slot)
CaseWrite == \E slot \in Slots : PatchCase(slot)
LogAndRespond == \E slot \in Slots : LogStep(slot)
Fail == \E slot \in Slots : FailStep(slot)

NextRace ==
  \/ CheckPost \/ CheckPut \/ CheckDelete
  \/ HearingWrite \/ CaseWrite \/ LogAndRespond \/ Fail

\* The server after three requests by A at time 0: POST /api/cases (case 1,
\* activity 2), POST /api/hearings for case 1 on day 3 (hearing 3, activity 4)
\* and PUT /api/cases/1 with body {status: "Closed"} (activity 5).
RaceCases ==
  (1 :> [id |-> 1, caseNumber |-> <<"n", "1">>, title |-> <<"S", "m">>,
         status |-> "Closed", nextHearingDate |-> Some(ParseDate(3)),
         clientId |-> Null, userId |-> "A", createdAt |-> 0, updatedAt |-> 0])
RaceHearings ==
  (3 :> [id |-> 3, caseId |-> 1, hearingDate |-> 3, status |-> Null,
         userId |-> "A", createdAt |-> 0, updatedAt |-> 0])
RaceActivities ==
  (2 :> [id |-> 2, action |-> "Created Case", entityType |-> "case", entityId |-> 1,
         userId |-> "A", createdAt |-> 0])
  @@ (4 :> [id |-> 4, action |-> "Scheduled Hearing", entityType |-> "hearing",
            entityId |-> 3, userId |-> "A", createdAt |-> 0])
  @@ (5 :> [id |-> 5, action |-> "Updated Case", entityType |-> "case", entityId |-> 1,
            userId |-> "A", createdAt |-> 0])
InitRace ==
  /\ cases = RaceCases
  /\ clients = <<>>
  /\ hearings = RaceHearings
  /\ activities = RaceActivities
  /\ nextId = 6
  /\ now = 0
  /\ resp = [user |-> "A", status |-> 200, body |-> <<RaceCases[1]>>]
  /\ issued = 1..5
  /\ writes = 3
  /\ dated = <<3>>
  /\ reqs = [slot \in Slots |-> Idle]
  /\ wrote = <<>>
  /\ sessions = <<>>
  /\ users = <<>>
  /\ revoked = {}
  /\ lapsed = {}
  /\ asked = <<>>

SpecRace == InitRace /\ [][NextRace]_vars

\* ================================================================ sessions
\* api/index.ts: the session map of the serverless handler, login, logout
\* and the routes behind isAuthenticated.  Date.now() is the wall clock: it
\* may be set forward or back between two requests.

\* Math.random().toString(36).substring(2, 15): any id, a live one included.
SessionIds == {"s1", "s2"}
SessionMs == 7 * 24 * 60 * 60 * 1000
ClockValues == {0, SessionMs, SessionMs + 1}

\* The Cookie header as the sequence of its name=value pairs; <<>> is no
\* header at all.
CookieHeaders ==
  {<<>>, <<<<"sessionId", "">>>>, <<<<"theme", "dark">>, <<"sessionId", "s1">>>>}
    \cup {<<<<"sessionId", s>>>> : s \in SessionIds}
Emails == {"test@test.com", "other@test.com"}
Passwords == {"test123", "wrong"}
Methods == {"GET", "POST", "PUT"}
TestUserId == "test-user-id"
SessionBodies == {body \in CaseBodies : body.status = "Active"}

RECURSIVE findCookie(_)
findCookie(header) ==
  IF header = <<>> THEN Null
  ELSE IF Head(header)[1] = "sessionId" THEN Some(Head(header)[2])
  ELSE findCookie(Tail(header))

\* The value of the sessionId cookie, Null for none or an empty one.
getSessionId(header) ==
  LET found == findCookie(header)
  IN IF found = Null \/ found[1] = "" THEN Null ELSE found

setSession(sessionId, userId) ==
  MapSet(sessions, sessionId, [userId |-> userId, expires |-> now + SessionMs])

\* Faulty variant: a session is refused from its expiry instant on.
sessionExpired_AtExpiry(sessionId) ==
  sessionId \notin DOMAIN sessions \/ sessions[sessionId].expires <= now
\* !session || session.expires < Date.now()
sessionExpired(sessionId) ==
  sessionId \notin DOMAIN sessions \/ sessions[sessionId].expires < now

\* isAuthenticated: what it returns, and the session map it leaves.
isAuthenticated(header) ==
  LET sessionId == getSessionId(header)
  IN IF sessionId = Null THEN Null
     ELSE IF sessionExpired(sessionId[1]) THEN Null
     ELSE Some(sessions[sessionId[1]].userId)

afterIsAuthenticated(header) ==
  LET sessionId == getSessionId(header)
  IN IF sessionId = Null THEN sessions
     ELSE IF sessionExpired(sessionId[1]) THEN MapDelete(sessions, sessionId[1])
     ELSE sessions

\* The guard as a step of a handler: the map written, the histories kept.
Authenticate(header) ==
  LET sessionId == getSessionId(header)
  IN /\ sessions' = afterIsAuthenticated(header)
     /\ lapsed' = IF sessionId # Null /\ sessionId[1] \in DOMAIN sessions
                      /\ sessionExpired(sessionId[1])
                    THEN lapsed \cup {sessionId[1]} ELSE lapsed
     /\ asked' = sessionId
     /\ UNCHANGED revoked

testUser ==
  [id |-> TestUserId, email |-> "test@test.com", firstName |-> "Test",
   lastName |-> "User", profileImageUrl |-> Null, createdAt |-> now,
   updatedAt |-> now]

getUser(id) == MapGet(users, id)

upsertUser(userData) ==
  MapSet(users, userData.id,
         Spread(userData,
                [createdAt |-> IF userData.id \in DOMAIN users
                                 THEN users[userData.id].createdAt ELSE now,
                 updatedAt |-> now]))

\* Faulty variant: a session is set whatever the credentials.
handleLogin_AnyPassword(method, email, password, sessionId) ==
  /\ IF method # "POST"
       THEN /\ Respond("none", 405, <<>>)
            /\ UNCHANGED <<sessions, users, revoked, lapsed>>
     ELSE IF email = "test@test.com" /\ password = "test123"
       THEN /\ users' = upsertUser(testUser)
            /\ sessions' = setSession(sessionId, TestUserId)
            /\ revoked' = revoked \ {sessionId}
            /\ lapsed' = lapsed \ {sessionId}
            /\ Respond("none", 200, <<testUser>>)
     ELSE /\ sessions' = setSession(sessionId, TestUserId)
          /\ Respond("none", 401, <<"Invalid credentials">>)
          /\ UNCHANGED <<users, revoked, lapsed>>
  /\ asked' = Null
  /\ UNCHANGED <<store, now, issued, writes, dated, race>>
\* POST /api/login
handleLogin(method, email, password, sessionId) ==
  /\ IF method # "POST"
       THEN /\ Respond("none", 405, <<>>)
            /\ UNCHANGED <<sessions, users, revoked, lapsed>>
     ELSE IF email = "test@test.com" /\ password = "test123"
       THEN /\ users' = upsertUser(testUser)
            /\ sessions' = setSession(sessionId, TestUserId)
            /\ revoked' = revoked \ {sessionId}
            /\ lapsed' = lapsed \ {sessionId}
            /\ Respond("none", 200, <<testUser>>)
     ELSE /\ Respond("none", 401, <<"Invalid credentials">>)
          /\ UNCHANGED <<sessions, users, revoked, lapsed>>
  /\ asked' = Null
  /\ UNCHANGED <<store, now, issued, writes, dated, race>>

\* Faulty variant: the cookie is cleared and the session left in the map.
handleLogout_CookieOnly(method, header) ==
  LET sessionId == getSessionId(header)
  IN /\ IF method # "POST"
          THEN /\ Respond("none", 405, <<>>)
               /\ UNCHANGED revoked
        ELSE /\ revoked' = IF sessionId # Null THEN revoked \cup {sessionId[1]}
                           ELSE revoked
             /\ Respond("none", 200, <<>>)
     /\ asked' = sessionId
     /\ UNCHANGED <<store, now, issued, writes, dated, race, sessions, users, lapsed>>
\* POST /api/logout
handleLogout(method, header) ==
  LET sessionId == getSessionId(header)
  IN /\ IF method # "POST"
          THEN /\ Respond("none", 405, <<>>)
               /\ UNCHANGED <<sessions, revoked>>
        ELSE /\ sessions' = IF sessionId # Null THEN MapDelete(sessions, sessionId[1])
                            ELSE sessions
             /\ revoked' = IF sessionId # Null THEN revoked \cup {sessionId[1]}
                           ELSE revoked
             /\ Respond("none", 200, <<>>)
     /\ asked' = sessionId
     /\ UNCHANGED <<store, now, issued, writes, dated, race, users, lapsed>>

\* GET /api/auth/user
handleGetUser(method, header) ==
  /\ IF method # "GET"
       THEN /\ Respond("none", 405, <<>>)
            /\ asked' = getSessionId(header)
            /\ UNCHANGED <<sessions, revoked, lapsed>>
     ELSE /\ Authenticate(header)
          /\ LET authed == isAuthenticated(header)
             IN IF authed = Null THEN Respond("none", 401, <<"Unauthorized">>)
                ELSE IF getUser(authed[1]) = Null THEN Respond("none", 401, <<"Unauthorized">>)
                ELSE Respond(authed[1], 200, getUser(authed[1]))
  /\ UNCHANGED <<store, now, issued, writes, dated, race, users>>

\* GET and POST /api/cases
handleCases(method, header, data) ==
  /\ Authenticate(header)
  /\ LET authed == isAuthenticated(header)
     IN IF authed = Null
          THEN /\ Respond("none", 401, <<"Unauthorized">>)
               /\ UNCHANGED <<store, issued, writes>>
        ELSE IF method = "GET"
          THEN /\ Respond(authed[1], 200, getCases(authed[1]))
               /\ UNCHANGED <<store, issued, writes>>
        ELSE IF method = "POST"
          THEN /\ nextId + 1 <= MaxId
               /\ cases' = createCase(data, authed[1])
               /\ activities' = logActivity(nextId + 1, "Created Case", "case",
                                            nextId, authed[1])
               /\ nextId' = nextId + 2
               /\ issued' = issued \cup {nextId, nextId + 1}
               /\ writes' = writes + 1
               /\ Respond(authed[1], 201, <<cases'[nextId]>>)
               /\ UNCHANGED <<clients, hearings>>
        ELSE /\ Respond(authed[1], 405, <<>>)
             /\ UNCHANGED <<store, issued, writes>>
  /\ UNCHANGED <<now, dated, race, users>>

\* The wall clock between two requests.
SetClock(t) ==
  /\ t # now
  /\ now' = t
  /\ UNCHANGED <<store, http, issued, race, auth>>

Login ==
  \E method \in Methods, email \in Emails, password \in Passwords,
     sessionId \in SessionIds : handleLogin(method, email, password, sessionId)
Logout == \E method \in Methods, header \in CookieHeaders : handleLogout(method, header)
GetUser == \E method \in Methods, header \in CookieHeaders : handleGetUser(method, header)
Cases ==
  \E method \in Methods, header \in CookieHeaders, data \in SessionBodies :
    handleCases(method, header, data)
Clock == \E t \in ClockValues : SetClock(t)

NextSession == Login \/ Logout \/ GetUser \/ Cases \/ Clock

SpecSession == Init /\ [][NextSession]_vars

\* ================================================ updates of the same row
\* MemStorage.updateCase, updateClient and updateHearing called one after
\* the other on the rows of a filled store.  Each call is an async function
\* without an await in its body: it runs from its Map.get to its Map.set
\* before any other call starts, so the calls of interleaved requests take
\* effect one at a time, in some order.
MergeClients ==
  (6 :> [id |-> 6, name |-> <<"a">>, email |-> Some(<<"a", "@">>),
         contactNumber |-> Some(<<"5", "X">>), userId |-> "A",
         createdAt |-> 0, updatedAt |-> 0])

CaseMerges == {[status |-> "Active"], [status |-> "Urgent"], [title |-> <<"T">>]}
ClientMerges == {[name |-> <<"b">>], [contactNumber |-> Some(<<"7">>)]}
HearingMerges == {[hearingDate |-> 5], [status |-> Some("Adjourned")]}

InitMerge ==
  /\ cases = RaceCases
  /\ clients = MergeClients
  /\ hearings = RaceHearings
  /\ activities = RaceActivities
  /\ nextId = 7
  /\ now = 0
  /\ resp = [user |-> "A", status |-> 200, body |-> <<RaceCases[1]>>]
  /\ issued = 1..6
  /\ writes = 3
  /\ dated = <<3>>
  /\ reqs = [slot \in Slots |-> Idle]
  /\ wrote = <<>>
  /\ sessions = <<>>
  /\ users = <<>>
  /\ revoked = {}
  /\ lapsed = {}
  /\ asked = <<>>

\* Faulty variant: the call merges its patch into the row as it was read
\* before the earlier calls wrote.
UpdateCall_StaleRead(kind, id, data) ==
  /\ Len(wrote) <= MaxWrites + 1
  /\ cases' = IF kind = "case" THEN MapSet(cases, id, updatedRow(RaceCases[id], data))
              ELSE cases
  /\ clients' = IF kind = "client"
                  THEN MapSet(clients, id, updatedRow(MergeClients[id], data))
                ELSE clients
  /\ hearings' = IF kind = "hearing"
                   THEN MapSet(hearings, id, updatedRow(RaceHearings[id], data))
                 ELSE hearings
  /\ wrote' = Append(wrote, <<kind, id, data>>)
  /\ UNCHANGED <<activities, nextId, now, issued, http, reqs, auth>>
\* One update call, kept in the history.
UpdateCall(kind, id, data) ==
  /\ Len(wrote) <= MaxWrites + 1
  /\ Becomes(IF kind = "case" THEN afterUpdateCase(id, data)
             ELSE IF kind = "client" THEN afterUpdateClient(id, data)
             ELSE afterUpdateHearing(id, data))
  /\ wrote' = Append(wrote, <<kind, id, data>>)
  /\ UNCHANGED <<now, issued, http, reqs, auth>>

MergeCase == \E id \in DOMAIN cases, data \in CaseMerges : UpdateCall("case", id, data)
MergeClient ==
  \E id \in DOMAIN clients, data \in ClientMerges : UpdateCall("client", id, data)
MergeHearing ==
  \E id \in DOMAIN hearings, data \in HearingMerges : UpdateCall("hearing", id, data)

NextMerge == Tick \/ MergeCase \/ MergeClient \/ MergeHearing

SpecMerge == InitMerge /\ [][NextMerge]_vars

\* ===================================================== claims on the store
AllRowIds == DOMAIN cases \cup DOMAIN clients \cup DOMAIN hearings \cup DOMAIN activities

OwnedRows(m, userId) == {m[i] : i \in OwnedIds(m, userId)}
Min(a, b) == IF a <= b THEN a ELSE b

\* C1: for every owner, getCases, getClients, getHearings and getActivities
\* return no row of another owner and (getActivities: up to its limit) every
\* existing row of that owner, each once.
C1_OwnerScopedLists ==
  \A A \in Users :
    /\ \A r \in Range(getCases(A)) : r.userId = A
    /\ \A i \in DOMAIN cases : cases[i].userId = A => cases[i] \in Range(getCases(A))
    /\ Len(getCases(A)) = Cardinality(OwnedIds(cases, A))
    /\ \A r \in Range(getClients(A)) : r.userId = A
    /\ \A i \in DOMAIN clients : clients[i].userId = A => clients[i] \in Range(getClients(A))
    /\ \A r \in Range(getHearings(A)) : r.userId = A
    /\ \A i \in DOMAIN hearings :
         hearings[i].userId = A => hearings[i] \in Range(getHearings(A))
    /\ \A limit \in {1, ActivityLimit} :
         /\ \A r \in Range(getActivities(A, limit)) :
              r.userId = A /\ r \in OwnedRows(activities, A)
         /\ Len(getActivities(A, limit)) =
              Min(limit, Cardinality(OwnedIds(activities, A)))
         /\ Cardinality(Range(getActivities(A, limit))) = Len(getActivities(A, limit))

\* Both owners hold a case at once, and rows of the other kinds exist too.
C1_Witness ==
  /\ OwnedIds(cases, "A") # {}
  /\ OwnedIds(cases, "B") # {}

\* The row a create is to leave behind: the input, the owner, the id and both
\* timestamps.
CreatedRow(data, userId, id, t) ==
  [f \in DOMAIN data \cup {"id", "userId", "createdAt", "updatedAt"} |->
     CASE f = "id" -> id
       [] f = "userId" -> userId
       [] f = "createdAt" -> t
       [] f = "updatedAt" -> t
       [] OTHER -> data[f]]

UpdateFrame(m, mNext, id, data) ==
  /\ DOMAIN mNext = DOMAIN m
  /\ DOMAIN mNext[id] = DOMAIN m[id]
  /\ \A f \in DOMAIN m[id] :
       IF f = "updatedAt" THEN mNext[id][f] = now
       ELSE IF f \in DOMAIN data THEN mNext[id][f] = data[f]
       ELSE mNext[id][f] = m[id][f]
  /\ \A j \in DOMAIN m \ {id} : mNext[j] = m[j]

\* C5: update(id, partial) on an existing row changes only the fields present
\* in partial and updatedAt; id, userId, createdAt and the other fields keep
\* their values, and no other row of any entity changes.
C5_UpdateFrame ==
  /\ \A id \in DOMAIN cases, data \in CasePartials :
       LET s == afterUpdateCase(id, data)
       IN /\ UpdateFrame(cases, s.cases, id, data)
          /\ s = [Store EXCEPT !.cases = s.cases]
  /\ \A id \in DOMAIN clients, data \in ClientPartials :
       LET s == afterUpdateClient(id, data)
       IN /\ UpdateFrame(clients, s.clients, id, data)
          /\ s = [Store EXCEPT !.clients = s.clients]
  /\ \A id \in DOMAIN hearings, data \in HearingPartials :
       LET s == afterUpdateHearing(id, data)
       IN /\ UpdateFrame(hearings, s.hearings, id, data)
          /\ s = [Store EXCEPT !.hearings = s.hearings]

\* A case was updated after the clock moved, beside another row.
C5_Witness ==
  \E i \in DOMAIN cases :
    /\ cases[i].status = "Closed"
    /\ cases[i].updatedAt > cases[i].createdAt
    /\ AllRowIds # {i}

\* What delete(id) may do to map m, and what it is to return.
DeleteEffect(m, mNext, id, returned) ==
  /\ returned = IF id \in DOMAIN m THEN "true" ELSE "false"
  /\ MapGet(mNext, id) = Null
  /\ DOMAIN mNext = DOMAIN m \ {id}
  /\ \A j \in DOMAIN m \ {id} : mNext[j] = m[j]

C7_NotFound ==
  \A id \in Ids \cup issued :
    /\ id \notin DOMAIN cases =>
         /\ getCase(id) = Null
         /\ \A data \in CasePartials :
              rowOrUndefined(cases, id) = "undefined" /\ afterUpdateCase(id, data) = Store
         /\ deleteResult(cases, id) = "false" /\ afterDeleteCase(id) = Store
    /\ id \notin DOMAIN clients =>
         /\ getClient(id) = Null
         /\ \A data \in ClientPartials :
              rowOrUndefined(clients, id) = "undefined" /\ afterUpdateClient(id, data) = Store
         /\ deleteResult(clients, id) = "false" /\ afterDeleteClient(id) = Store
    /\ id \notin DOMAIN hearings =>
         /\ getHearing(id) = Null
         /\ \A data \in HearingPartials :
              rowOrUndefined(hearings, id) = "undefined" /\ afterUpdateHearing(id, data) = Store
         /\ deleteResult(hearings, id) = "false" /\ afterDeleteHearing(id) = Store

\* The store holds rows, and some id names none of them: one deleted, one
\* never issued.
C7_Witness ==
  /\ DOMAIN cases # {}
  /\ issued \ AllRowIds # {}
  /\ nextId \notin AllRowIds

\* The queries the search claims are tried on.
Queries == {<<"s", "m">>, <<"S", "m">>, <<"m">>, <<"x">>, <<"5">>, <<"a">>, <<"_">>}

ContainsIgnoreCase(s, q) == includes(toLowerCase(s), toLowerCase(q))
OptContainsIgnoreCase(opt, q) == opt # Null /\ ContainsIgnoreCase(opt[1], q)

\* C8: searchCases(owner, q) returns exactly the owner's cases whose
\* caseNumber or title contains q ignoring letter case, searchClients exactly
\* the owner's clients whose name, email or contact number does, in the
\* in-memory and in the relational implementation alike.
C8_SearchIgnoresCase ==
  \A userId \in Users, q \in Queries :
    LET wantCases == {i \in DOMAIN cases :
                        /\ cases[i].userId = userId
                        /\ \/ ContainsIgnoreCase(cases[i].caseNumber, q)
                           \/ ContainsIgnoreCase(cases[i].title, q)}
        wantClients == {i \in DOMAIN clients :
                          /\ clients[i].userId = userId
                          /\ \/ ContainsIgnoreCase(clients[i].name, q)
                             \/ OptContainsIgnoreCase(clients[i].email, q)
                             \/ OptContainsIgnoreCase(clients[i].contactNumber, q)}
    IN /\ searchCases(userId, q) = wantCases
       /\ dbSearchCases(userId, q) = wantCases
       /\ searchClients(userId, q) = wantClients
       /\ dbSearchClients(userId, q) = wantClients

\* C10: hearingsThisWeek counts the owner's hearings dated from today to
\* today + 7 days, as calendar dates, both ends included, at any time of day.
C10_HearingsThisWeek ==
  \A userId \in Users :
    getDashboardStats(userId).hearingsThisWeek =
      Cardinality({i \in OwnedIds(hearings, userId) :
                     /\ ToDateStr(now) <= hearings[i].hearingDate
                     /\ hearings[i].hearingDate <= ToDateStr(now) + 7})

\* ==================================================== claims on the routes
\* C2: no response to a request authenticated as A carries a Case, Client,
\* Hearing or Activity row whose userId is another user's, on any endpoint
\* and after any earlier requests; GET /hearings?caseId and the case list of
\* GET /clients/:id included.
C2_ReadBoundary ==
  \A i \in DOMAIN resp.body : resp.body[i].userId = resp.user

\* A request by A leaves the rows of m that others own as they were and adds
\* none for another owner.
OthersUntouched(m, mNext, A) ==
  /\ \A i \in DOMAIN m : m[i].userId # A => (i \in DOMAIN mNext /\ mNext[i] = m[i])
  /\ \A i \in DOMAIN mNext \ DOMAIN m : mNext[i].userId = A

\* The answer owed to a by-id request on a row of another owner.
Forbidden(m, id, A) ==
  (id \in DOMAIN m /\ m[id].userId # A) => (resp'.status = 403 /\ UNCHANGED store)

\* C3: no request authenticated as A creates, modifies or deletes a Case,
\* Client or Hearing row owned by another user, and a by-id request on a row
\* of another owner is answered 403 and changes nothing; the case write of
\* PUT /hearings/:id after an earlier PUT changed the hearing's caseId
\* included.
C3_WriteBoundary ==
  [][\A A \in Users :
       /\ resp'.user = A =>
            /\ OthersUntouched(cases, cases', A)
            /\ OthersUntouched(clients, clients', A)
            /\ OthersUntouched(hearings, hearings', A)
       /\ \A id \in CaseReqIds :
            /\ GetCaseReq(A, id) => Forbidden(cases, id, A)
            /\ DeleteCaseReq(A, id) => Forbidden(cases, id, A)
            /\ \A data \in CasePatches : PutCaseReq(A, id, data) => Forbidden(cases, id, A)
       /\ \A id \in ClientReqIds :
            /\ GetClientReq(A, id) => Forbidden(clients, id, A)
            /\ DeleteClientReq(A, id) => Forbidden(clients, id, A)
            /\ \A data \in ClientPatches :
                 PutClientReq(A, id, data) => Forbidden(clients, id, A)
       /\ \A id \in HearingReqIds :
            /\ GetHearingReq(A, id) => Forbidden(hearings, id, A)
            /\ DeleteHearingReq(A, id) => Forbidden(hearings, id, A)
            /\ \A data \in HearingPatches :
                 PutHearingReq(A, id, data) => Forbidden(hearings, id, A)
    ]_vars

RECURSIVE SumCounts(_)
SumCounts(pairs) == IF pairs = <<>> THEN 0 ELSE Head(pairs).count + SumCounts(Tail(pairs))

\* C11: getCasesByStatuses(owner) returns one (status, count) pair per distinct
\* status among the owner's cases, each count at least 1 and equal to the
\* number of the owner's cases with that status, and the counts sum to
\* getDashboardStats(owner).totalCases.
C11_CasesByStatus ==
  \A userId \in Users :
    LET pairs == getCasesByStatuses(userId)
        mine == OwnedIds(cases, userId)
    IN /\ {pairs[k].status : k \in DOMAIN pairs} = {cases[i].status : i \in mine}
       /\ \A k, l \in DOMAIN pairs : pairs[k].status = pairs[l].status => k = l
       /\ \A k \in DOMAIN pairs :
            /\ pairs[k].count >= 1
            /\ pairs[k].count = Cardinality({i \in mine : cases[i].status = pairs[k].status})
       /\ SumCounts(pairs) = getDashboardStats(userId).totalCases

\* An owner has two cases of one status, counted as 2.
C11_Witness ==
  \E userId \in Users :
    \E k \in DOMAIN getCasesByStatuses(userId) : getCasesByStatuses(userId)[k].count = 2

\* C12: in every state reachable through the HTTP handlers, every hearing's
\* caseId resolves to an existing case whose userId equals the hearing's userId.
C12_HearingParent ==
  \A h \in DOMAIN hearings :
    /\ hearings[h].caseId \in DOMAIN cases
    /\ cases[hearings[h].caseId].userId = hearings[h].userId

\* The answer owed to a by-id request on row id of table m: 404 when the row
\* is missing, 403 when another user owns it, and then no row in the
\* response and the store, activities included, as it was.
Refused(m, id, userId) ==
  /\ id \notin DOMAIN m =>
       (resp'.status = 404 /\ resp'.body = <<>> /\ UNCHANGED store)
  /\ (id \in DOMAIN m /\ m[id].userId # userId) =>
       (resp'.status = 403 /\ resp'.body = <<>> /\ UNCHANGED store)

\* C13: for every authenticated by-id request (GET, PUT, DELETE on
\* /cases/:id, /clients/:id, /hearings/:id), a missing row is answered 404 and
\* a row of another user 403; in both cases no row is read back, no row is
\* changed and no activity is logged.  A step of any of the three by-id handlers
\* of a table on a missing or foreign id is a refusal; a handler answers the
\* user it serves, so only that user's requests are examined.
C13_NotFoundOrForbidden ==
  [][\A userId \in Users : resp'.user = userId =>
       /\ \A id \in CaseReqIds :
            (id \notin DOMAIN cases \/ cases[id].userId # userId) =>
              \/ Refused(cases, id, userId)
              \/ ~(\/ GetCaseReq(userId, id)
                   \/ DeleteCaseReq(userId, id)
                   \/ \E data \in CasePatches : PutCaseReq(userId, id, data))
       /\ \A id \in ClientReqIds :
            (id \notin DOMAIN clients \/ clients[id].userId # userId) =>
              \/ Refused(clients, id, userId)
              \/ ~(\/ GetClientReq(userId, id)
                   \/ DeleteClientReq(userId, id)
                   \/ \E data \in ClientPatches : PutClientReq(userId, id, data))
       /\ \A id \in HearingReqIds :
            (id \notin DOMAIN hearings \/ hearings[id].userId # userId) =>
              \/ Refused(hearings, id, userId)
              \/ ~(\/ GetHearingReq(userId, id)
                   \/ DeleteHearingReq(userId, id)
                   \/ \E data \in HearingPatches : PutHearingReq(userId, id, data))
    ]_vars

\* B was just refused (403) while A's hearing and A's case exist, after a
\* write by someone: the refusal left rows and activities in place.
C13_Witness ==
  /\ resp.status = 403
  /\ resp.user = "B"
  /\ resp.body = <<>>
  /\ writes = 1
  /\ \E h \in DOMAIN hearings : hearings[h].userId = "A"
  /\ \E c \in DOMAIN cases : cases[c].userId = "A"

\* C14: getDashboardStats(owner).activeCases equals the number of the owner's
\* cases whose status is exactly "Active"; cases with status "Scheduled" (a
\* case that just had a hearing created) are not counted.
C14_ActiveCasesOnly ==
  \A userId \in Users :
    getDashboardStats(userId).activeCases =
      Cardinality({i \in OwnedIds(cases, userId) : cases[i].status = "Active"})

\* C15: after any sequence of creates and deletes by any users,
\* getDashboardStats(owner).totalCases is the number of existing Case rows with
\* userId = owner and totalClients the number of existing Client rows with
\* userId = owner; rows of other owners and deleted rows are never counted.
C15_Totals ==
  /\ \A owner \in Users :
       /\ getDashboardStats(owner).totalCases =
            Cardinality({i \in DOMAIN cases : cases[i].userId = owner})
       /\ getDashboardStats(owner).totalCases =
            Cardinality(DOMAIN cases) -
              Cardinality({i \in DOMAIN cases : cases[i].userId # owner})
       /\ getDashboardStats(owner).totalClients =
            Cardinality({i \in DOMAIN clients : clients[i].userId = owner})
       /\ getDashboardStats(owner).totalClients =
            Cardinality(DOMAIN clients) -
              Cardinality({i \in DOMAIN clients : clients[i].userId # owner})
  /\ getDashboardStats("A").totalCases + getDashboardStats("B").totalCases =
       Cardinality(DOMAIN cases \cap issued)
  /\ getDashboardStats("A").totalClients + getDashboardStats("B").totalClients =
       Cardinality(DOMAIN clients \cap issued)

\* A row was created and deleted, and another owner's case exists: one owner
\* counts 1 case, the other 0.
C15_Witness ==
  /\ issued \ AllRowIds # {}
  /\ getDashboardStats("A").totalCases = 0
  /\ getDashboardStats("B").totalCases = 1

\* C16: a successful PUT /hearings/:id that supplies hearingDate d sets the
\* parent case's nextHearingDate to d and leaves the case's status unchanged;
\* a PUT that does not supply hearingDate leaves the parent case entirely
\* unchanged, updatedAt included.  The parent case is the case the hearing
\* belongs to once the PUT has succeeded, where that case exists.
C16_PutHearingPatchesParent ==
  [][\A userId \in Users, id \in DOMAIN hearings, data \in HearingPatches :
       (PutHearingReq(userId, id, data) /\ resp'.status = 200) =>
         LET parent == hearings'[id].caseId
         IN parent \in DOMAIN cases =>
              IF "hearingDate" \in DOMAIN data
                THEN /\ cases'[parent].nextHearingDate = Some(ParseDate(data.hearingDate))
                     /\ cases'[parent].status = cases[parent].status
                ELSE cases'[parent] = cases[parent]
    ]_vars

\* The hearing of case c whose date a request wrote last.
LastDated(c) ==
  LET mine == {k \in DOMAIN dated :
                 dated[k] \in DOMAIN hearings /\ hearings[dated[k]].caseId = c}
  IN dated[CHOOSE k \in mine : \A l \in mine : l <= k]

\* C18: after any series of hearing-create and hearing-update requests served
\* one after the other, and as long as no hearing has been deleted, each
\* case's nextHearingDate equals the hearingDate of the hearing of that case
\* that was most recently created or had its date updated.
C18_NextHearingIsLastWritten ==
  (\A a \in DOMAIN activities : activities[a].action # "Deleted Hearing") =>
    \A c \in DOMAIN cases :
      (\E h \in DOMAIN hearings : hearings[h].caseId = c) =>
        cases[c].nextHearingDate = Some(ParseDate(hearings[LastDated(c)].hearingDate))

\* ============================================ claims on requests in flight
\* The position in `wrote` of the last write of the given kind, 0 if none.
LastWrite(kind) ==
  LET at == {k \in DOMAIN wrote : wrote[k][2] = kind}
  IN IF at = {} THEN 0 ELSE CHOOSE k \in at : \A l \in at : l <= k
FirstWrite(kind) ==
  LET at == {k \in DOMAIN wrote : wrote[k][2] = kind}
  IN IF at = {} THEN 0 ELSE CHOOSE k \in at : \A l \in at : k <= l
Finished == \A slot \in Slots : reqs[slot].pc \in {"done", "failed"}

\* C17: DELETE /hearings/:id never changes any Case row: no step of a DELETE
\* request, from its first read to its response, changes `cases`, so the
\* parent case's nextHearingDate and status are after the delete what they
\* were before.
C17_DeleteHearingKeepsCases ==
  [][\A slot \in Slots :
       (reqs'[slot] # reqs[slot] /\ reqs'[slot].method = "DELETE") => cases' = cases
    ]_vars

\* A DELETE was answered 204 for a hearing whose date its case holds as
\* nextHearingDate, with status Scheduled, while another hearing of the case
\* remains: the case still shows the deleted hearing's date.
C17_Witness ==
  \E slot \in Slots :
    /\ reqs[slot].pc = "done"
    /\ reqs[slot].method = "DELETE"
    /\ reqs[slot].status = 204
    /\ reqs[slot].id \notin DOMAIN hearings
    /\ cases[reqs[slot].existing.caseId].nextHearingDate =
         Some(ParseDate(reqs[slot].existing.hearingDate))
    /\ cases[reqs[slot].existing.caseId].status = "Scheduled"
    /\ \E h \in DOMAIN hearings :
         /\ hearings[h].caseId = reqs[slot].existing.caseId
         /\ hearings[h].hearingDate # reqs[slot].existing.hearingDate

\* C19: two requests that each write a hearing of the same case and then the
\* case's nextHearingDate, interleaved at their awaits, both succeed, each
\* writing once, and the case's nextHearingDate is the date written by the
\* case update that executed last.
C19_LastCaseWriteWins ==
  /\ \A slot \in Slots :
       /\ Cardinality({k \in DOMAIN wrote : wrote[k] = <<slot, "case">>}) <= 1
       /\ Cardinality({k \in DOMAIN wrote : wrote[k] = <<slot, "hearing">>}) <= 1
       /\ (reqs[slot].pc = "done" /\ reqs[slot].status \notin {404, 403}) =>
            /\ reqs[slot].status \in {200, 201, 204}
            /\ patchesCase(reqs[slot]) => \E k \in DOMAIN wrote : wrote[k] = <<slot, "case">>
  /\ LastWrite("case") # 0 =>
       LET last == reqs[wrote[LastWrite("case")][1]]
       IN cases[1].nextHearingDate = Some(ParseDate(last.data.hearingDate))

\* Both requests were answered 201 or 200 after writing hearings with
\* different dates; the one whose hearing was written first wrote the case
\* last, so the case shows the date of the hearing written first.
C19_Witness ==
  /\ \A slot \in Slots : reqs[slot].pc = "done" /\ reqs[slot].status \in {200, 201}
  /\ \A slot \in Slots : patchesCase(reqs[slot])
  /\ reqs["r1"].data.hearingDate # reqs["r2"].data.hearingDate
  /\ Len(wrote) = 4
  /\ wrote[FirstWrite("hearing")][1] = wrote[LastWrite("case")][1]
  /\ FirstWrite("hearing") < LastWrite("hearing")
  /\ LastWrite("hearing") < FirstWrite("case")
  /\ cases[1].nextHearingDate =
       Some(ParseDate(reqs[wrote[FirstWrite("hearing")][1]].data.hearingDate))

\* C20: the hearing write and the case write of a hearing-create or
\* hearing-date-update request are separate steps; a request that stops, or
\* whose case write fails, after its hearing write leaves the hearing
\* persisted and the case as it was, takes no further step, and no step other
\* than the case write of a request changes a case.
C20_NoRepair ==
  [][/\ hearings' # hearings => cases' = cases
     /\ \A slot \in Slots :
          /\ (reqs[slot].pc = "patch" /\ reqs'[slot].pc = "failed") =>
               /\ hearings' = hearings
               /\ cases' = cases
          /\ reqs[slot].pc = "failed" => reqs'[slot] = reqs[slot]
     /\ cases' # cases =>
          \E slot \in Slots : reqs[slot].pc = "patch" /\ reqs'[slot].pc = "log"
    ]_vars

\* A POST ended at its case write: its hearing is stored, the case still has
\* the earlier date and status, and every request has finished.
C20_Witness ==
  /\ Finished
  /\ \E slot \in Slots :
       /\ reqs[slot].pc = "failed"
       /\ reqs[slot].at = "patch"
       /\ reqs[slot].method = "POST"
       /\ reqs[slot].id \in DOMAIN hearings
       /\ hearings[reqs[slot].id].hearingDate = reqs[slot].data.hearingDate
       /\ cases[1].nextHearingDate = Some(ParseDate(3))
       /\ cases[1].status = "Closed"
       /\ ParseDate(reqs[slot].data.hearingDate) # ParseDate(3)

\* ===================================================== claims on ordering
\* s without the elements outside S, order kept.
RECURSIVE Restrict(_, _)
Restrict(s, S) ==
  IF s = <<>> THEN <<>>
  ELSE IF Head(s) \in S THEN <<Head(s)>> \o Restrict(Tail(s), S)
  ELSE Restrict(Tail(s), S)
IsSubsequence(part, whole) == part = Restrict(whole, Range(part))
Descending(ids, m) ==
  \A k, l \in DOMAIN ids : k < l => m[ids[k]].updatedAt >= m[ids[l]].updatedAt
CaseStatuses == {"Active", "Closed"}
OrderQueries == {<<"s", "m">>, <<"b">>}

\* C21 (as the code has it): getCases, getClients, searchCases, searchClients
\* and filterCasesByStatus return rows ordered by updatedAt descending, so a
\* row stands before every row of the list with an earlier updatedAt (rows of
\* equal updatedAt keep their insertion order); getHearings returns rows
\* ordered by hearingDate ascending; a search or filter result is a
\* subsequence of the corresponding list result in the same order.
C21_ListOrder ==
  \A userId \in Users :
    LET caseIds == getCasesIds(userId)
        clientIds == getClientsIds(userId)
        hearingIds == getHearingsIds(userId)
    IN /\ Descending(caseIds, cases)
       /\ Descending(clientIds, clients)
       /\ \A k, l \in DOMAIN caseIds :
            (k < l /\ cases[caseIds[k]].updatedAt = cases[caseIds[l]].updatedAt)
              => caseIds[k] < caseIds[l]
       /\ \A k, l \in DOMAIN hearingIds :
            k < l => hearings[hearingIds[k]].hearingDate
                       <= hearings[hearingIds[l]].hearingDate
       /\ \A q \in OrderQueries :
            LET foundCases == searchCasesIds(userId, q)
                foundClients == searchClientsIds(userId, q)
            IN /\ Descending(foundCases, cases)
               /\ Descending(foundClients, clients)
               /\ IsSubsequence(foundCases, caseIds)
               /\ IsSubsequence(foundClients, clientIds)
       /\ \A status \in CaseStatuses :
            LET filtered == filterCasesIds(userId, status)
            IN /\ Descending(filtered, cases)
               /\ IsSubsequence(filtered, caseIds)

\* An owner's older case was updated in a later half-day than the newer one
\* was stored: it heads the list, and the filter on its status returns it alone.
C21_Witness ==
  \E userId \in Users :
    LET ids == getCasesIds(userId)
    IN /\ Len(ids) = 2
       /\ ids[1] < ids[2]
       /\ cases[ids[1]].updatedAt > cases[ids[2]].updatedAt
       /\ cases[ids[1]].updatedAt > cases[ids[1]].createdAt
       /\ filterCasesIds(userId, cases[ids[1]].status) = <<ids[1]>>

\* C21 (as the spec has it): a row moves to the front of its owner's list
\* when it is updated.
C21_UpdatedRowFirst ==
  [][\A id \in DOMAIN cases :
       (id \in DOMAIN cases' /\ cases'[id] # cases[id]) =>
         getCasesIds(cases[id].userId)'[1] = id
    ]_vars

\* ================================================ claims on the activity log
\* C22: the activity log is append-only: an Activity row that has been created
\* still exists with all of its fields unchanged after every request,
\* deleting the case, client or hearing it refers to included.
C22_ActivitiesAppendOnly ==
  [][\A a \in DOMAIN activities :
       a \in DOMAIN activities' /\ activities'[a] = activities[a]
    ]_vars

\* Hearing 5 has been deleted; the activities that recorded its scheduling and
\* its update are still in the log beside the one recording the deletion.
C22_Witness ==
  /\ 5 \notin DOMAIN hearings
  /\ \E a \in DOMAIN activities :
       activities[a].action = "Deleted Hearing" /\ activities[a].entityId = 5
  /\ activities[6] = SeededActivities[6]
  /\ activities[7] = SeededActivities[7]

\* The map an activity's entityType names.
TableOf(entityType) ==
  IF entityType = "case" THEN cases
  ELSE IF entityType = "client" THEN clients ELSE hearings
TableOfNext(entityType) ==
  IF entityType = "case" THEN cases'
  ELSE IF entityType = "client" THEN clients' ELSE hearings'

\* C23: every successful mutating request (POST, PUT, DELETE on cases,
\* clients, hearings) appends exactly one Activity, after the primary write,
\* whose userId is the requester and whose entityType and entityId identify
\* the affected row; requests answered 401, 403, 404 or 405 and all GET
\* requests append none.
C23_OneActivityPerWrite ==
  [][LET added == DOMAIN activities' \ DOMAIN activities
     IN /\ resp'.status \in {401, 403, 404, 405} =>
             (activities' = activities /\ writes' = writes)
        /\ writes' = writes => activities' = activities
        /\ writes' # writes =>
             /\ writes' = writes + 1
             /\ Cardinality(added) = 1
             /\ resp'.status \in {200, 201, 204}
             /\ LET a == CHOOSE x \in added : TRUE
                    act == activities'[a]
                    m == TableOf(act.entityType)
                    mNext == TableOfNext(act.entityType)
                IN /\ act.userId = resp'.user
                   /\ act.entityType \in {"case", "client", "hearing"}
                   /\ resp'.status = 201 =>
                        /\ act.entityId \in DOMAIN mNext \ DOMAIN m
                        /\ mNext[act.entityId].userId = resp'.user
                        /\ resp'.body[1] = mNext[act.entityId]
                        /\ act.entityId < a
                   /\ resp'.status = 200 =>
                        /\ act.entityId \in DOMAIN m \cap DOMAIN mNext
                        /\ m[act.entityId].userId = resp'.user
                        /\ resp'.body[1] = mNext[act.entityId]
                   /\ resp'.status = 204 =>
                        /\ act.entityId \in DOMAIN m \ DOMAIN mNext
                        /\ m[act.entityId].userId = resp'.user
    ]_vars

\* A's PUT /api/hearings/5 was answered 200 and the newest activity is A's
\* "Updated Hearing" for hearing 5, the eighth id handed out.
C23_Witness ==
  /\ resp.status = 200
  /\ resp.user = "A"
  /\ writes = 1
  /\ 8 \in DOMAIN activities
  /\ activities[8].action = "Updated Hearing"
  /\ activities[8].entityId = 5
  /\ activities[8].userId = "A"
  /\ resp.body = <<hearings[5]>>

\* C24: if createActivity fails after the primary write of a mutating request
\* has succeeded, the request is answered with a generic failure (500) and
\* the primary write is not rolled back: the created, updated or deleted row
\* stays as written, and no activity is logged for it.
C24_LogFailureKeepsWrite ==
  [][\A slot \in Slots :
       (reqs[slot].pc = "log" /\ reqs'[slot].pc = "failed") =>
         /\ reqs'[slot].status = 500
         /\ resp' = [user |-> reqs[slot].userId, status |-> 500, body |-> <<>>]
         /\ hearings' = hearings
         /\ cases' = cases
         /\ activities' = activities
         /\ \E k \in DOMAIN wrote : wrote[k] = <<slot, "hearing">>
    ]_vars

\* Every request has ended; a DELETE ended at createActivity with 500, the
\* hearing it deleted is gone and no activity records the deletion.
C24_Witness ==
  /\ Finished
  /\ \E slot \in Slots :
       /\ reqs[slot].pc = "failed"
       /\ reqs[slot].at = "log"
       /\ reqs[slot].status = 500
       /\ reqs[slot].method = "DELETE"
       /\ reqs[slot].existing # Null
       /\ reqs[slot].id \notin DOMAIN hearings
       /\ \A a \in DOMAIN activities : activities[a].action # "Deleted Hearing"

\* C25: a hearing created without a status reads back with status
\* "Scheduled", in the in-memory store as in the relational one.
C25_HearingStatusDefault ==
  [][\A data \in HearingInputs, userId \in Users :
       (CreateHearingOp(data, userId) /\ data.status = Null) =>
         /\ hearings'[nextId].status = Some("Scheduled")
         /\ hearings'[nextId].status = dbNewHearing(nextId, data, userId).status
    ]_vars

\* C26: a PUT on /hearings/:id whose row a concurrent DELETE removed between
\* the handler's ownership check and its update call, so that updateHearing
\* returns not-found, is answered 404 and logs no activity; it is answered
\* with success and logs "Updated Hearing" only if the update applied.
C26_PutOfDeletedRowIs404 ==
  [][\A slot \in Slots :
       ( /\ reqs[slot].method = "PUT"
         /\ reqs[slot].pc = "write"
         /\ reqs[slot].id \notin DOMAIN hearings
         /\ reqs'[slot].pc \notin {"write", "failed"} ) =>
           /\ reqs'[slot].pc = "done"
           /\ reqs'[slot].status = 404
           /\ activities' = activities
    ]_vars

C28_SessionExpiry ==
  [][/\ \A header \in CookieHeaders :
          LET sessionId == getSessionId(header)
              live == /\ sessionId # Null
                      /\ sessionId[1] \in DOMAIN sessions
                      /\ sessions[sessionId[1]].expires >= now
          IN /\ live => isAuthenticated(header) = Some(sessions[sessionId[1]].userId)
             /\ ~live => isAuthenticated(header) = Null
             /\ (sessionId = asked' /\ ~live /\ sessionId # Null
                   /\ (handleGetUser("GET", header)
                         \/ \E method \in Methods, data \in SessionBodies :
                              handleCases(method, header, data))) =>
                  /\ resp'.status = 401
                  /\ sessionId[1] \notin DOMAIN sessions'
                  /\ sessionId[1] \in DOMAIN sessions => sessionId[1] \in lapsed'
     /\ resp'.user # "none" /\ resp' # resp =>
          /\ asked' # Null
          /\ asked'[1] \in DOMAIN sessions
          /\ sessions[asked'[1]].expires >= now
          /\ resp'.user = sessions[asked'[1]].userId
     /\ \A s \in lapsed : s \notin DOMAIN sessions
     /\ \A s \in lapsed \ lapsed' :
          \E method \in Methods, email \in Emails, password \in Passwords :
            handleLogin(method, email, password, s)
     /\ \A sessionId \in SessionIds :
          handleLogin("POST", "test@test.com", "test123", sessionId) =>
            sessions'[sessionId].expires = now + 604800000
    ]_vars

\* Seven days after its login a request carrying s2, whose expiry is the
\* present instant, has just been answered as the test user, while s1 was
\* found expired and removed.
C28_Witness ==
  /\ now = SessionMs
  /\ asked = Some("s2")
  /\ resp.status = 200
  /\ resp.user = TestUserId
  /\ "s2" \in DOMAIN sessions
  /\ sessions["s2"].expires = now
  /\ "s1" \in lapsed

\* The clock went back to 0, before the expiry of any session ever created,
\* and a request carrying s1, found expired earlier, is still answered 401.
C28_WitnessClockBack ==
  /\ now = 0
  /\ asked = Some("s1")
  /\ "s1" \in lapsed
  /\ resp.status = 401

\* C29: a request answered 401 (no session cookie, an unknown or expired
\* session id, or a login with credentials other than test@test.com /
\* test123) leaves all user, case, client, hearing and activity rows as they
\* are; a failed login also creates no session.
C29_UnauthorizedChangesNothing ==
  [][/\ resp'.status = 401 =>
          UNCHANGED <<users, cases, clients, hearings, activities, nextId>>
     /\ resp'.status # 401 =>
          \A header \in CookieHeaders :
            (isAuthenticated(header) = Null /\ getSessionId(header) = asked') =>
              /\ ~handleGetUser("GET", header)
              /\ ~\E method \in Methods, data \in SessionBodies :
                    handleCases(method, header, data)
     /\ (resp'.status # 401 \/ sessions' # sessions) =>
          \A email \in Emails, password \in Passwords, sessionId \in SessionIds :
            (email # "test@test.com" \/ password # "test123") =>
              ~handleLogin("POST", email, password, sessionId)
    ]_vars

\* A login with wrong credentials has just been refused on a server that
\* holds a user, a case, its activity and a session.
C29_Witness ==
  /\ resp.status = 401
  /\ resp.body = <<"Invalid credentials">>
  /\ DOMAIN users # {}
  /\ DOMAIN cases # {}
  /\ DOMAIN activities # {}
  /\ DOMAIN sessions # {}

\* The rows as they were before the first update call.
FirstTable(kind) ==
  IF kind = "case" THEN RaceCases
  ELSE IF kind = "client" THEN MergeClients ELSE RaceHearings

\* The position in the history of the last call that set field f of the row,
\* 0 if no call did.
LastSetting(kind, id, f) ==
  LET setting == {k \in DOMAIN wrote :
                    wrote[k][1] = kind /\ wrote[k][2] = id /\ f \in DOMAIN wrote[k][3]}
  IN IF setting = {} THEN 0 ELSE CHOOSE k \in setting : \A j \in setting : j <= k

\* C30: in the in-memory store an update reads, merges and writes the row in
\* one step, so of the updates of one row that were interleaved every field
\* holds the value of the last update that set it (updates of disjoint fields
\* all take effect, of the same field the last one executed wins) and a
\* field no update set holds the value it had before.
C30_NoLostUpdate ==
  \A kind \in {"case", "client", "hearing"} :
    \A id \in DOMAIN TableOf(kind) :
      \A f \in DOMAIN TableOf(kind)[id] \ {"updatedAt"} :
        LET k == LastSetting(kind, id, f)
        IN TableOf(kind)[id][f] =
             IF k = 0 THEN FirstTable(kind)[id][f] ELSE wrote[k][3][f]

\* Three updates of case 1: status, then title, then status again; the case
\* has the title of the second and the status of the third.
C30_Witness ==
  /\ wrote = << <<"case", 1, [status |-> "Active"]>>,
                <<"case", 1, [title |-> <<"T">>]>>,
                <<"case", 1, [status |-> "Urgent"]>> >>
  /\ cases[1].title = <<"T">>
  /\ cases[1].status = "Urgent"

====
